---- MODULE Spec2Model ----
(***************************************************************************)
(* Battery Cell Analyzer (src/app.py): the Streamlit script main(), its    *)
(* session state, and the two pieces of logic it holds: the derivation of  *)
(* one cell's parameters (calculate_cell_parameters) and the summary over  *)
(* the derived results (main, lines 194-197).                              *)
(*                                                                         *)
(* Numbers are fixed-point integers, in the finest unit a quantity needs:  *)
(*   voltage, max_voltage, min_voltage   tenths of a volt     (3.2 V = 32) *)
(*   current                             hundredths of an ampere           *)
(*   capacity, total_capacity            thousandths of a Wh (V/10 * A/100)*)
(*   temperature, avg_temperature        hundredths of a degree C          *)
(*   voltage_range_percent               hundredths of a percent           *)
(*   progress_value                      ten-thousandths (1.0 = 10000)     *)
(* so that round(x, 1) and round(x, 2) are real operations: they return a  *)
(* multiple of 10 of the unit.                                             *)
(***************************************************************************)
EXTENDS Integers, Sequences, FiniteSets

VARIABLES
    session_state,  \* st.session_state: a set of <<attribute, value>> pairs
    widgets,        \* the sidebar's widget values: one [type, current] per rendered cell
    button,         \* what st.sidebar.button returns on the current run
    pc,             \* position of the script run
    cells_data,     \* main's local list of cell configurations
    results,        \* main's local list of results
    summary,        \* <<>> or <<the four summary metrics>>
    raised,         \* the exception that left main, "none" if none
    bars,           \* the values handed to st.progress on this run, in order
    page,           \* what the run rendered: "none", "welcome" or "analysis"
    calls,          \* history: the arguments of this run's calculate_cell_parameters calls
    summaries,      \* history: how often this run computed the summary
    pressed         \* history: the button has been pressed in this session

vars == <<session_state, widgets, button, pc, cells_data, results, summary,
          raised, bars, page, calls, summaries, pressed>>

----------------------------------------------------------------------------
(* Bounds of the model and constants of the program *)

\* cells the slider may be moved to in the model (the program allows SliderMax)
MaxCells == 3

\* st.sidebar.slider("Number of cells to analyze", 1, 8, 3)
SliderMin == 1
SliderMax == 8
SliderDefault == 3

\* st.sidebar.number_input(min_value=0.1, max_value=10.0, value=2.0), in 1/100 A
CurrentMin == 10
CurrentMax == 1000
CurrentDefault == 200

\* random.uniform(25, 40), in degrees C
TempLow == 25
TempHigh == 40

\* the values a user enters as a current in the model, in 1/100 A
CurrentInputs == {150, 200, 300}

\* the values random.uniform(25, 40) returns in the model, in 1/100 degree C:
\* both end points, a value that rounds down and a value that rounds up to
\* the upper end point
UniformDraws == {TempLow * 100, 2874, 3996, TempHigh * 100}

\* chemistry tags: strings are sequences of characters
LFP == <<"L", "F", "P">>
MNC == <<"M", "N", "C">>

\* the options of the selectbox
TypeOptions == <<LFP, MNC>>

----------------------------------------------------------------------------
(* Python built-ins *)

Lowercase ==
    <<"a", "b", "c", "d", "e", "f", "g", "h", "i", "j", "k", "l", "m",
      "n", "o", "p", "q", "r", "s", "t", "u", "v", "w", "x", "y", "z">>

Uppercase ==
    <<"A", "B", "C", "D", "E", "F", "G", "H", "I", "J", "K", "L", "M",
      "N", "O", "P", "Q", "R", "S", "T", "U", "V", "W", "X", "Y", "Z">>

\* str.upper on one character
UpperChar(ch) ==
    IF \E k \in 1..Len(Lowercase) : Lowercase[k] = ch
    THEN Uppercase[CHOOSE k \in 1..Len(Lowercase) : Lowercase[k] = ch]
    ELSE ch

\* str.upper
Upper(s) == [k \in 1..Len(s) |-> UpperChar(s[k])]

\* round(num / den, ndigits) in a unit in which 10^-ndigits is `unit`: the
\* multiples of `unit` nearest to num / den. Python rounds the binary double,
\* so on an exact decimal tie either neighbour can be the result.
PyRound(num, den, unit) ==
    LET d == den * unit
        q == num \div d
        r == num % d
    IN  IF 2 * r < d THEN {q * unit}
        ELSE IF 2 * r > d THEN {(q + 1) * unit}
        ELSE {q * unit, (q + 1) * unit}

Max2(a, b) == IF a >= b THEN a ELSE b
Min2(a, b) == IF a <= b THEN a ELSE b

RECURSIVE SumOf(_, _)
\* sum(result[field] for result in seq)
SumOf(seq, field) ==
    IF seq = <<>> THEN 0 ELSE seq[1][field] + SumOf(Tail(seq), field)

\* max(result[field] for result in seq), seq not empty
MaxOf(seq, field) ==
    CHOOSE m \in {seq[k][field] : k \in 1..Len(seq)} :
        \A k \in 1..Len(seq) : seq[k][field] <= m

\* hasattr(st.session_state, name)
HasAttr(state, name) == \E p \in state : p[1] = name

\* st.session_state.<name>
GetAttr(state, name) == (CHOOSE p \in state : p[1] = name)[2]

\* st.session_state.<name> = value
SetAttr(state, name, value) ==
    {p \in state : p[1] # name} \cup {<<name, value>>}

----------------------------------------------------------------------------
(* calculate_cell_parameters *)

\* the tag compared as it is written, without upper()
ProfileCaseSensitive(cell_type) ==
    IF cell_type = LFP
    THEN [voltage |-> 32, max_voltage |-> 40, min_voltage |-> 28]
    ELSE [voltage |-> 36, max_voltage |-> 34, min_voltage |-> 32]

\* the voltage, max_voltage and min_voltage chosen by the cell type
Profile(cell_type) ==
    IF Upper(cell_type) = LFP
    THEN [voltage |-> 32, max_voltage |-> 40, min_voltage |-> 28]
    ELSE [voltage |-> 36, max_voltage |-> 34, min_voltage |-> 32]

\* the draw returned as it is, without round(..., 1)
TemperatureUnrounded == UniformDraws

\* temperature = round(random.uniform(25, 40), 1)
Temperature == UNION {PyRound(u, 1, 10) : u \in UniformDraws}

\* the product cut to 2 decimals instead of rounded
CapacityTruncated(voltage, current) == {((voltage * current) \div 10) * 10}

\* capacity = round(voltage * current, 2)
Capacity(voltage, current) == PyRound(voltage * current, 1, 10)

\* the percentage cut to 100 where it is computed
VoltageRangePercentCapped(p) ==
    IF p.max_voltage > p.min_voltage
    THEN {Min2(10000, v) : v \in PyRound((p.voltage - p.min_voltage) * 10000,
                                         p.max_voltage - p.min_voltage, 10)}
    ELSE {5000}

\* the percentage rounded to a whole number, round(...) without the digits
VoltageRangePercentWhole(p) ==
    IF p.max_voltage > p.min_voltage
    THEN PyRound((p.voltage - p.min_voltage) * 10000,
                 p.max_voltage - p.min_voltage, 100)
    ELSE {5000}

\* lines 76-80: the voltage range percentage, with its fallback for a range
\* that is not positive
VoltageRangePercent(p) ==
    IF p.max_voltage > p.min_voltage
    THEN PyRound((p.voltage - p.min_voltage) * 10000,
                 p.max_voltage - p.min_voltage, 10)
    ELSE {5000}

\* the dictionaries a call can return
calculate_cell_parameters(cell_type, current) ==
    LET p == Profile(cell_type)
    IN  {[voltage |-> p.voltage,
          current |-> current,
          temperature |-> t,
          capacity |-> c,
          max_voltage |-> p.max_voltage,
          min_voltage |-> p.min_voltage,
          voltage_range_percent |-> v] :
            t \in Temperature,
            c \in Capacity(p.voltage, current),
            v \in VoltageRangePercent(p)}

----------------------------------------------------------------------------
(* display_cell_result *)

\* the fraction handed over without the clamp
ProgressValueUnclamped(params) == params.voltage_range_percent

\* progress_value = max(0.0, min(1.0, params['voltage_range_percent'] / 100))
ProgressValue(params) ==
    Max2(0, Min2(10000, params.voltage_range_percent))

----------------------------------------------------------------------------
(* main *)

DefaultWidget == [type |-> TypeOptions[1], current |-> CurrentDefault]

Init ==
    /\ session_state = {}
    /\ widgets = [k \in 1..SliderDefault |-> DefaultWidget]
    /\ button = FALSE
    /\ pc = "main"
    /\ cells_data = <<>>
    /\ results = <<>>
    /\ summary = <<>>
    /\ raised = "none"
    /\ bars = <<>>
    /\ page = "none"
    /\ calls = <<>>
    /\ summaries = 0
    /\ pressed = FALSE

\* lines 145-170: one configuration per rendered cell, ids counted from 1
CellsData(w) ==
    [k \in 1..Len(w) |-> [id |-> k, type |-> w[k].type, current |-> w[k].current]]

\* session_state.analyze assigned the button's value on every run
AfterButtonAssigned(state, clicked) == SetAttr(state, "analyze", clicked)

\* lines 175-176: a pressed button sets session_state.analyze
AfterButton(state, clicked) ==
    IF clicked THEN SetAttr(state, "analyze", TRUE) ELSE state

\* line 179: hasattr(st.session_state, 'analyze') and st.session_state.analyze
Analyzing(state) == HasAttr(state, "analyze") /\ GetAttr(state, "analyze")

\* the summary with an empty list answered by zeros instead of the division
SummaryOfGuarded(res) ==
    IF Len(res) = 0
    THEN [raised |-> "none",
          values |-> {[total_capacity |-> 0, avg_temperature |-> 0,
                       peak_voltage |-> 0, cell_count |-> 0]}]
    ELSE [raised |-> "none",
          values |-> {[total_capacity |-> SumOf(res, "capacity"),
                       avg_temperature |-> a,
                       peak_voltage |-> MaxOf(res, "voltage"),
                       cell_count |-> Len(res)] :
                         a \in PyRound(SumOf(res, "temperature"), Len(res), 10)}]

\* the summary with the first result's voltage as the peak and the average
\* cut to 1 decimal
SummaryOfFirstVoltage(res) ==
    IF Len(res) = 0
    THEN [raised |-> "ZeroDivisionError", values |-> {}]
    ELSE [raised |-> "none",
          values |-> {[total_capacity |-> SumOf(res, "capacity"),
                       avg_temperature |->
                           (SumOf(res, "temperature") \div (Len(res) * 10)) * 10,
                       peak_voltage |-> res[1].voltage,
                       cell_count |-> Len(res)]}]

\* lines 194-197: the summaries the block can compute, or the exception it
\* raises: line 195 divides by len(results)
SummaryOf(res) ==
    IF Len(res) = 0
    THEN [raised |-> "ZeroDivisionError", values |-> {}]
    ELSE [raised |-> "none",
          values |-> {[total_capacity |-> SumOf(res, "capacity"),
                       avg_temperature |-> a,
                       peak_voltage |-> MaxOf(res, "voltage"),
                       cell_count |-> Len(res)] :
                         a \in PyRound(SumOf(res, "temperature"), Len(res), 10)}]

\* the loop visiting the cells from the last one to the first
NextCellFromEnd == cells_data[Len(cells_data) - Len(results)]

\* the cell the loop of line 183 visits next
NextCell == cells_data[Len(results) + 1]

\* a script run starts: what the previous run rendered is replaced
StartRun(clicked) ==
    /\ pc = "idle"
    /\ button' = clicked
    /\ pc' = "main"
    /\ page' = "none"
    /\ raised' = "none"
    /\ UNCHANGED <<session_state, cells_data, results, summary, bars, calls,
                   summaries, pressed>>

\* the user moves the slider of line 138: the widgets of cells no longer
\* rendered lose their values, new cells start from the defaults
MoveSlider(n) ==
    /\ n >= SliderMin /\ n <= SliderMax /\ n <= MaxCells
    /\ n # Len(widgets)
    /\ widgets' = [k \in 1..n |-> IF k <= Len(widgets) THEN widgets[k]
                                   ELSE DefaultWidget]
    /\ StartRun(FALSE)

\* the user picks an option of the selectbox of lines 149-154
SelectType(k, t) ==
    /\ k \in 1..Len(widgets)
    /\ t # widgets[k].type
    /\ widgets' = [widgets EXCEPT ![k].type = t]
    /\ StartRun(FALSE)

\* the user enters a value in the number_input of lines 157-164
EnterCurrent(k, c) ==
    /\ k \in 1..Len(widgets)
    /\ c >= CurrentMin /\ c <= CurrentMax
    /\ c # widgets[k].current
    /\ widgets' = [widgets EXCEPT ![k].current = c]
    /\ StartRun(FALSE)

\* the user presses the button of line 175
ClickAnalyze ==
    /\ UNCHANGED widgets
    /\ StartRun(TRUE)

\* lines 124-179: the sidebar, the button and the choice of the page
MainTop ==
    /\ pc = "main"
    /\ cells_data' = CellsData(widgets)
    /\ session_state' = AfterButton(session_state, button)
    /\ pressed' = (pressed \/ button)
    /\ pc' = IF Analyzing(session_state') THEN "derive" ELSE "welcome"
    /\ results' = <<>>
    /\ UNCHANGED <<widgets, button, summary, raised, bars, page, calls, summaries>>

\* lines 183-189: one iteration of the loop over cells_data
DeriveStep ==
    /\ pc = "derive"
    /\ Len(results) < Len(cells_data)
    /\ \E params \in calculate_cell_parameters(NextCell.type, NextCell.current) :
          results' = Append(results,
                            [id |-> NextCell.id, type |-> NextCell.type,
                             voltage |-> params.voltage,
                             current |-> params.current,
                             temperature |-> params.temperature,
                             capacity |-> params.capacity,
                             max_voltage |-> params.max_voltage,
                             min_voltage |-> params.min_voltage,
                             voltage_range_percent |-> params.voltage_range_percent])
    /\ calls' = Append(calls, <<NextCell.type, NextCell.current>>)
    /\ UNCHANGED <<session_state, widgets, button, pc, cells_data, summary,
                   raised, bars, page, summaries, pressed>>

\* lines 194-197: the summary metrics, once the loop has ended; the division
\* by zero leaves main and ends the run
Summarize ==
    /\ pc = "derive"
    /\ Len(results) = Len(cells_data)
    /\ raised' = SummaryOf(results).raised
    /\ IF raised' = "none"
       THEN /\ \E s \in SummaryOf(results).values : summary' = <<s>>
            /\ summaries' = summaries + 1
            /\ pc' = "display"
            /\ page' = page
       ELSE /\ summary' = <<>>
            /\ summaries' = summaries
            /\ pc' = "return"
            /\ page' = "error"
    /\ UNCHANGED <<session_state, widgets, button, cells_data, results, bars,
                   calls, pressed>>

\* lines 199-262: the page of results, with one progress bar per result
Display ==
    /\ pc = "display"
    /\ bars' = [k \in 1..Len(results) |-> ProgressValue(results[k])]
    /\ page' = "analysis"
    /\ pc' = "return"
    /\ UNCHANGED <<session_state, widgets, button, cells_data, results, summary,
                   raised, calls, summaries, pressed>>

\* lines 264-298: the welcome page
Welcome ==
    /\ pc = "welcome"
    /\ page' = "welcome"
    /\ pc' = "return"
    /\ UNCHANGED <<session_state, widgets, button, cells_data, results, summary,
                   raised, bars, calls, summaries, pressed>>

\* main returns (or the exception leaves it): its locals are gone, the page
\* stays until the next run
MainReturn ==
    /\ pc = "return"
    /\ pc' = "idle"
    /\ cells_data' = <<>>
    /\ results' = <<>>
    /\ summary' = <<>>
    /\ bars' = <<>>
    /\ calls' = <<>>
    /\ summaries' = 0
    /\ UNCHANGED <<session_state, widgets, button, raised, page, pressed>>

Next ==
    \/ \E n \in 1..SliderMax : MoveSlider(n)
    \/ \E k \in 1..SliderMax, t \in {TypeOptions[j] : j \in 1..Len(TypeOptions)} :
          SelectType(k, t)
    \/ \E k \in 1..SliderMax, c \in CurrentInputs : EnterCurrent(k, c)
    \/ ClickAnalyze
    \/ MainTop
    \/ DeriveStep
    \/ Summarize
    \/ Display
    \/ Welcome
    \/ MainReturn

Spec == Init /\ [][Next]_vars

----------------------------------------------------------------------------
(* The two pieces of logic on their own: calculate_cell_parameters for any  *)
(* tag and current, and lines 182-197 for any list of configurations, the   *)
(* empty one included.                                                      *)

\* tags a caller may pass
TagInputs ==
    {LFP, <<"l", "f", "p">>, <<"L", "f", "P">>, MNC, <<"m", "n", "c">>,
     <<"N", "M", "C">>, <<"L", "F">>, <<"L", "F", "P", " ">>, <<>>}

\* currents a caller may pass, in 1/100 A
CoreCurrents == {5, 150, 200, 201, 300, 1005}

InitCore ==
    /\ session_state = {<<"analyze", TRUE>>}
    /\ widgets = <<>>
    /\ button = FALSE
    /\ pc = "derive"
    /\ cells_data \in {<<>>} \cup
          {<<[id |-> 1, type |-> t, current |-> c]>> :
              t \in TagInputs, c \in CoreCurrents}
    /\ results = <<>>
    /\ summary = <<>>
    /\ raised = "none"
    /\ bars = <<>>
    /\ page = "none"
    /\ calls = <<>>
    /\ summaries = 0
    /\ pressed = TRUE

NextCore ==
    \/ DeriveStep
    \/ Summarize
    \/ Display

SpecCore == InitCore /\ [][NextCore]_vars

----------------------------------------------------------------------------
(* Properties *)

\* a tag that equals "LFP" when case is ignored
IsLfpTag(t) ==
    /\ Len(t) = 3
    /\ t[1] \in {"L", "l"}
    /\ t[2] \in {"F", "f"}
    /\ t[3] \in {"P", "p"}

\* the sum of a field over a list, counted by position
TotalOf(seq, field) ==
    LET upto[n \in 0..Len(seq)] ==
            IF n = 0 THEN 0 ELSE upto[n - 1] + seq[n][field]
    IN  upto[Len(seq)]

Dist(a, b) == IF a >= b THEN a - b ELSE b - a

\* the configuration (1, LFP, 2.0), (2, MNC, 1.5), (3, LFP, 3.0)
ScenarioCells ==
    <<[id |-> 1, type |-> LFP, current |-> 200],
      [id |-> 2, type |-> MNC, current |-> 150],
      [id |-> 3, type |-> LFP, current |-> 300]>>

\* C1 as stated: every result of a cell tagged MNC has voltage_range_percent
\* 50.0, the value of the fallback branch, whatever the current.
MncRangePercentIsFallback ==
    \A k \in 1..Len(results) :
        results[k].type = MNC => results[k].voltage_range_percent = 5000

\* C1 as amended: every result of a cell tagged MNC has max_voltage 3.4 above
\* min_voltage 3.2, so the formula branch is taken, and
\* voltage_range_percent is round(((3.6 - 3.2) / (3.4 - 3.2)) * 100, 1), that
\* is 200.0, whatever the current.
MncRangePercentIsFormula ==
    \A k \in 1..Len(results) :
        results[k].type = MNC =>
            /\ results[k].max_voltage = 34
            /\ results[k].min_voltage = 32
            /\ results[k].max_voltage > results[k].min_voltage
            /\ results[k].voltage_range_percent = 20000

MncRangePercentWitness ==
    \E j, k \in 1..Len(results) :
        /\ results[j].type = MNC /\ results[k].type = MNC
        /\ results[j].current # results[k].current
        /\ results[j].voltage_range_percent = 20000
        /\ results[k].voltage_range_percent = 20000

\* C2: the capacity of every result is the nominal voltage of its tag (3.2 for
\* LFP, 3.6 otherwise) times the current, rounded to the nearest hundredth,
\* and the result carries the current it was given; (LFP, 2.0) gives 6.4,
\* (MNC, 1.5) gives 5.4 and (LFP, 3.0) gives 9.6.
CapacityIsRoundedProduct ==
    \A k \in 1..Len(results) :
        LET cell == cells_data[k]
            nominal == IF IsLfpTag(cell.type) THEN 32 ELSE 36
            capacity == results[k].capacity
        IN  /\ results[k].current = cell.current
            /\ capacity % 10 = 0
            /\ 2 * Dist(capacity, nominal * cell.current) <= 10
            /\ (cell.type = LFP /\ cell.current = 200) => capacity = 6400
            /\ (cell.type = MNC /\ cell.current = 150) => capacity = 5400
            /\ (cell.type = LFP /\ cell.current = 300) => capacity = 9600

CapacityWitness ==
    \E k \in 1..Len(results) :
        /\ cells_data[k].type = MNC
        /\ cells_data[k].current = 201
        /\ results[k].capacity = 7240

\* C3: a computed summary has the sum of the capacities, the mean of the
\* temperatures rounded to the nearest tenth, the maximum of the voltages (3.6
\* if a cell is MNC, else 3.2) and the number of results; the scenario cells
\* give capacities 6.4, 5.4, 9.6, total_capacity 21.4, peak_voltage 3.6 and
\* cell_count 3.
SummaryMatchesResults ==
    summary # <<>> =>
        LET s == summary[1]
            n == Len(results)
        IN  /\ n > 0
            /\ s.total_capacity = TotalOf(results, "capacity")
            /\ s.avg_temperature % 10 = 0
            /\ 2 * Dist(s.avg_temperature * n, TotalOf(results, "temperature"))
                   <= 10 * n
            /\ \E k \in 1..n : results[k].voltage = s.peak_voltage
            /\ \A k \in 1..n : results[k].voltage <= s.peak_voltage
            /\ s.peak_voltage =
                   IF \E k \in 1..n : cells_data[k].type = MNC THEN 36 ELSE 32
            /\ s.cell_count = n
            /\ cells_data = ScenarioCells =>
                   /\ results[1].capacity = 6400
                   /\ results[2].capacity = 5400
                   /\ results[3].capacity = 9600
                   /\ s.total_capacity = 21400
                   /\ s.peak_voltage = 36
                   /\ s.cell_count = 3

SummaryWitness ==
    /\ cells_data = ScenarioCells
    /\ summary # <<>>
    /\ summary[1].total_capacity = 21400
    /\ summary[1].avg_temperature = 3000
    /\ results[1].temperature # results[2].temperature

\* C4: a run calls calculate_cell_parameters once per configured cell, in the
\* order of the configuration, and computes the summary once, after the last
\* call: the results are a prefix of the configuration by id, type and
\* current, the ids are 1, 2, ..., and a summary exists only over the full
\* list of 1 to 8 results.
DerivedInOrderThenSummarized ==
    /\ Len(results) <= Len(cells_data)
    /\ Len(calls) = Len(results)
    /\ \A k \in 1..Len(results) :
          /\ calls[k] = <<cells_data[k].type, cells_data[k].current>>
          /\ results[k].id = k
          /\ cells_data[k].id = k
          /\ results[k].type = cells_data[k].type
          /\ results[k].current = cells_data[k].current
    /\ summaries <= 1
    /\ (summary # <<>>) <=> (summaries = 1)
    /\ summaries = 1 =>
          /\ Len(results) = Len(cells_data)
          /\ Len(cells_data) >= 1 /\ Len(cells_data) <= 8
          /\ summary[1].cell_count = Len(cells_data)
    /\ pc = "display" => summaries = 1
    /\ page = "analysis" /\ pc = "return" => summaries = 1

DerivedInOrderWitness ==
    /\ pc = "return"
    /\ summaries = 1
    /\ Len(results) = 3
    /\ results[1].type = MNC /\ results[2].type = LFP /\ results[3].type = LFP
    /\ results[1].current = 300 /\ results[2].current = 150

\* C5: every value handed to the progress bar is the result's
\* voltage_range_percent clamped to [0, 100] and divided by 100: it lies in
\* [0.0, 1.0], also for a percentage above 100 (an MNC cell's is 200.0), with
\* one bar per result.
ProgressValueInUnitRange ==
    /\ \A k \in 1..Len(bars) :
          /\ bars[k] >= 0
          /\ bars[k] <= 10000
          /\ results[k].voltage_range_percent \in 0..10000 =>
                 bars[k] = results[k].voltage_range_percent
          /\ results[k].voltage_range_percent > 10000 => bars[k] = 10000
          /\ results[k].voltage_range_percent < 0 => bars[k] = 0
    /\ page = "analysis" /\ pc = "return" => Len(bars) = Len(results)

ProgressValueWitness ==
    /\ pc = "return"
    /\ \E j, k \in 1..Len(bars) :
          /\ results[j].type = LFP /\ bars[j] = 3330
          /\ results[k].type = MNC
          /\ results[k].voltage_range_percent > 10000
          /\ bars[k] = 10000

\* C6: every result's temperature lies in [25.0, 40.0] and has at most one
\* decimal, and so does the summary's avg_temperature.
TemperatureInRange ==
    /\ \A k \in 1..Len(results) :
          /\ results[k].temperature >= TempLow * 100
          /\ results[k].temperature <= TempHigh * 100
          /\ results[k].temperature % 10 = 0
    /\ summary # <<>> =>
          /\ summary[1].avg_temperature >= TempLow * 100
          /\ summary[1].avg_temperature <= TempHigh * 100

TemperatureWitness ==
    /\ summary # <<>>
    /\ Len(results) = 2
    /\ results[1].temperature = TempLow * 100
    /\ results[2].temperature = 2870
    /\ summary[1].avg_temperature \in {2680, 2690}

\* C7: no tag makes calculate_cell_parameters fail: a tag equal to "LFP" when
\* case is ignored gets voltage 3.2, max 4.0, min 2.8, every other tag gets
\* voltage 3.6, max 3.4, min 3.2, so the voltage depends on the tag alone.
TagChoosesProfile ==
    /\ (pc # "derive" /\ cells_data # <<>>) =>
          /\ Len(results) = Len(cells_data)
          /\ raised = "none"
    /\ \A k \in 1..Len(results) :
          IF IsLfpTag(cells_data[k].type)
          THEN /\ results[k].voltage = 32
               /\ results[k].max_voltage = 40
               /\ results[k].min_voltage = 28
          ELSE /\ results[k].voltage = 36
               /\ results[k].max_voltage = 34
               /\ results[k].min_voltage = 32

TagChoosesProfileWitness ==
    /\ pc # "derive"
    /\ raised = "none"
    /\ Len(results) = 1
    /\ cells_data[1].type = <<"l", "f", "p">>
    /\ results[1].voltage = 32

\* C8: the summary of an empty list of results fails: the error leaves main,
\* no summary is produced and no page of results is rendered; a list that is
\* not empty raises nothing.
EmptyResultsRaise ==
    /\ (pc # "derive" /\ cells_data = <<>>) =>
          /\ raised = "ZeroDivisionError"
          /\ summary = <<>>
          /\ summaries = 0
          /\ bars = <<>>
          /\ page = "error"
    /\ raised # "none" => cells_data = <<>>

EmptyResultsWitness ==
    /\ pc = "return"
    /\ cells_data = <<>>
    /\ results = <<>>
    /\ raised # "none"

\* C9: every result of a cell tagged LFP has voltage_range_percent 33.3, by
\* the formula branch (max_voltage 4.0 is above min_voltage 2.8), whatever the
\* current.
LfpRangePercentIsFormula ==
    \A k \in 1..Len(results) :
        results[k].type = LFP =>
            /\ results[k].max_voltage > results[k].min_voltage
            /\ results[k].voltage_range_percent = 3330

LfpRangePercentWitness ==
    \E j, k \in 1..Len(results) :
        /\ results[j].type = LFP /\ results[k].type = LFP
        /\ results[j].current # results[k].current
        /\ results[j].voltage_range_percent = 3330
        /\ results[k].voltage_range_percent = 3330

\* C10: a run derives the cells and computes the summary if and only if the
\* button has been pressed on this run or on an earlier one: until then a run
\* renders the welcome page, and session_state.analyze, once True, stays True.
AnalysisIffPressed ==
    /\ pc # "main" => (pressed <=> <<"analyze", TRUE>> \in session_state)
    /\ pc = "main" => (<<"analyze", TRUE>> \in session_state => pressed)
    /\ pc \notin {"main", "idle"} => (pressed \/ ~button)
    /\ pc \in {"derive", "display"} => pressed
    /\ pc = "welcome" => ~pressed
    /\ page = "analysis" => pressed
    /\ page = "welcome" => ~pressed
    /\ calls # <<>> \/ summaries > 0 => pressed
    /\ pc = "return" =>
          /\ pressed => (summaries = 1 /\ Len(calls) = Len(cells_data)
                         /\ page = "analysis")
          /\ ~pressed => (summaries = 0 /\ calls = <<>> /\ page = "welcome")

AnalysisIffPressedWitness ==
    /\ pc = "return"
    /\ pressed
    /\ ~button
    /\ page = "analysis"
    /\ summaries = 1
    /\ Len(cells_data) = 2

====
